---- MODULE Spec2Model ----
(***************************************************************************)
(* Sessions, engine routing and session scopes of                          *)
(* plateforme.core.database.sessions.                                      *)
(*                                                                         *)
(* SpecBind  : Session.get_bind on a session whose bind, router, proxy and *)
(*             flushing phase vary, against a configured router.           *)
(* Spec      : session_manager / async_session_manager scopes, nested,     *)
(*             with every body outcome and failing session operations.     *)
(* SpecCommit: commit(expire=...) calls, one at a time, on a session.      *)
(* SpecOverlap: the commit(expire=...) calls of two tasks on one session.   *)
(* SpecBulk  : bulk scopes of a blocking and a cooperative session.        *)
(* SpecResolve: entries registered with a bulk and resolve() driving the   *)
(*             resolver over them.                                         *)
(* SpecClosed: SpecResolve with the session of the bulk closed on the way.  *)
(* SpecUnits : two execution units entering and leaving scopes.            *)
(***************************************************************************)
EXTENDS Naturals, Sequences, FiniteSets, TLC

VARIABLES
    routes,        \* router: resource type -> [read, write] engine names
    fallback,      \* router: name of the default engine
    sess,          \* the session get_bind runs on: bind, routing, proxy, _flushing
    lastBind,      \* the last get_bind call: mapper, phase, router calls, result
    app,           \* PLATEFORME_CONTEXT: the current application, or None
    ambient,       \* SESSION_CONTEXT: the ambient session (0 is None)
    sessions,      \* every session created so far, by identity
    registry,      \* scoped factories' registries: mode -> session (0 is empty)
    stack,         \* the scopes whose body is running, innermost last
    entered,       \* how many scopes were entered so far
    last,          \* the most recent scope entry or exit and its outcome
    expire_on_commit, \* the expire_on_commit attribute of the (sync) session
    written,       \* the values the commit call wrote to it, in order
    committing,    \* the commit call under way, if any
    lastCommit,    \* the commit call that ended last
    callers,       \* the commit calls of two tasks on one session
    bulk_ambient,  \* SESSION_BULK_CONTEXT: the ambient bulk (0 is None)
    bulks,         \* every bulk created so far, by identity
    bstack,        \* the bulk scopes whose body is running, innermost last
    lastBulk,      \* the most recent bulk scope entry or exit
    resolving,     \* the resolve() call under way or just ended
    current,       \* the execution unit that is running
    parked,        \* the context of the other unit, once it is started
    spawned        \* how the other unit was started, and what it inherited

bindVars == <<routes, fallback, sess, lastBind>>

scopeVars == <<app, ambient, sessions, registry, stack, entered, last>>

commitVars == <<expire_on_commit, written, committing, lastCommit, callers>>

bulkVars == <<bulk_ambient, bulks, bstack, lastBulk, resolving>>

unitVars == <<current, parked, spawned>>

vars == <<routes, fallback, sess, lastBind,
          app, ambient, sessions, registry, stack, entered, last,
          expire_on_commit, written, committing, lastCommit, callers,
          bulk_ambient, bulks, bstack, lastBulk, resolving,
          current, parked, spawned>>

None == "None"

----------------------------------------------------------------------------
(* Session.commit / AsyncSession.commit with an expire override.           *)

\* The values of expire_on_commit, and the expire argument of commit.
Settings == {"True", "False"}
Expires == Settings \cup {None}

NoCommit == [active |-> FALSE]

\* commit(expire=...) up to the point where the commit of the storage
\* layer is under way: without expire nothing is touched; with it,
\* set_expire_on_commit keeps the value of the session (the sync_session
\* of an AsyncSession) and installs the override.
BeginCommit(expire) ==
    IF expire = None
    THEN [saved |-> None, setting |-> expire_on_commit, written |-> <<>>]
    ELSE [saved |-> expire_on_commit, setting |-> expire,
          written |-> <<expire>>]

\* A mutant: the value is put back after the with block, not in a finally.
MutEndCommit(call, fails) ==
    IF call.expire = None \/ fails
    THEN [setting |-> expire_on_commit, written |-> written]
    ELSE [setting |-> call.saved, written |-> Append(written, call.saved)]

\* The commit returned or raised: the finally clause of
\* set_expire_on_commit puts the kept value back.
EndCommit(call, fails) ==
    IF call.expire = None
    THEN [setting |-> expire_on_commit, written |-> written]
    ELSE [setting |-> call.saved, written |-> Append(written, call.saved)]

CommitBegin(async, expire) ==
    /\ ~committing.active
    /\ LET r == BeginCommit(expire)
       IN  /\ committing' = [active |-> TRUE, async |-> async,
                             expire |-> expire, saved |-> r.saved,
                             before |-> expire_on_commit]
           /\ expire_on_commit' = r.setting
           /\ written' = r.written
    /\ UNCHANGED <<lastCommit, callers, bindVars, scopeVars, bulkVars,
                   unitVars>>

\* super().commit() ends: it expires the instances or not as the setting
\* says at that moment, and returns or raises.
CommitEnd(fails) ==
    /\ committing.active
    /\ LET r == EndCommit(committing, fails)
       IN  /\ lastCommit' = [active |-> TRUE, async |-> committing.async,
                             expire |-> committing.expire,
                             before |-> committing.before,
                             during |-> expire_on_commit,
                             after |-> r.setting,
                             written |-> r.written,
                             out |-> IF fails THEN "raise" ELSE "return"]
           /\ expire_on_commit' = r.setting
           /\ written' = r.written
    /\ committing' = NoCommit
    /\ UNCHANGED <<callers, bindVars, scopeVars, bulkVars, unitVars>>

\* session.expire_on_commit = value, between two commit calls.
SetExpire(value) ==
    /\ ~committing.active
    /\ expire_on_commit' = value
    /\ written' = <<>>
    /\ UNCHANGED <<committing, lastCommit, callers, bindVars, scopeVars,
                   bulkVars, unitVars>>

\* The two tasks that call commit on the session they share.
Callers == {"first", "second"}

NotCalling == [pc |-> "idle"]

CommitIdle ==
    /\ written = <<>>
    /\ committing = NoCommit
    /\ lastCommit = NoCommit
    /\ callers = [c \in Callers |-> NotCalling]

\* A task calls commit(expire=...) on the cooperative session and runs up
\* to `await super().commit()`, where it is suspended; the other task may
\* be suspended there already.
OverlapBegin(c, expire) ==
    /\ callers[c].pc = "idle"
    /\ LET r == BeginCommit(expire)
           other == CHOOSE o \in Callers : o # c
       IN  /\ callers' = [callers EXCEPT ![c] =
                             [pc |-> "suspended", expire |-> expire,
                              saved |-> r.saved, before |-> expire_on_commit,
                              leads |-> callers[other].pc = "idle",
                              overlaps |-> callers[other].pc = "suspended"]]
           /\ expire_on_commit' = r.setting
           /\ written' = written \o r.written
    /\ UNCHANGED <<committing, lastCommit, bindVars, scopeVars, bulkVars,
                   unitVars>>

\* The commit of a suspended task ends, returning or raising, and the
\* task runs on to the end of its call.
OverlapEnd(c, fails) ==
    /\ callers[c].pc = "suspended"
    /\ LET r == EndCommit(callers[c], fails)
       IN  /\ callers' = [callers EXCEPT ![c] =
                             [@ EXCEPT !.pc = "done"] @@
                             [out |-> IF fails THEN "raise" ELSE "return",
                              after |-> r.setting]]
           /\ expire_on_commit' = r.setting
           /\ written' = r.written
    /\ UNCHANGED <<committing, lastCommit, bindVars, scopeVars, bulkVars,
                   unitVars>>

NotStarted == [started |-> FALSE]

NotSpawned == [kind |-> "none"]

\* One execution unit runs; no other was started.
UnitIdle ==
    /\ current = 1
    /\ parked = NotStarted
    /\ spawned = NotSpawned

NoBulkOp == [op |-> "none"]

NoResolve == [state |-> "idle"]

\* No bulk was created and resolve() was never called.
BulkIdle ==
    /\ bulk_ambient = 0
    /\ bulks = <<>>
    /\ bstack = <<>>
    /\ lastBulk = NoBulkOp
    /\ resolving = NoResolve

----------------------------------------------------------------------------
(* Engines and the router (DatabaseManager, an external collaborator).     *)

Types == {"Order", "Item"}

EngineNames == {"primary", "replica", "analytics"}

\* An engine or connection handle; async marks an AsyncEngine.
Engine(name, async) == [name |-> name, async |-> async]

NoEngine == Engine(None, FALSE)

\* What the storage layer's own default-bind resolution returns.
DefaultBind == Engine("metadata", FALSE)

\* The binds a session can be constructed with.
ExplicitBinds == {Engine("primary", FALSE), Engine("connection", FALSE)}

\* AsyncEngine.sync_engine: the blocking facade of a cooperative engine.
sync_engine(engine) == [engine EXCEPT !.async = FALSE]

RouteOf(resource) ==
    IF resource \in Types THEN routes[resource]
    ELSE [read |-> None, write |-> None]

Lookup(name, async_mode) ==
    IF name = None THEN NoEngine ELSE Engine(name, async_mode)

get_read_engine(resource, async_mode) ==
    Lookup(RouteOf(resource).read, async_mode)

get_write_engine(resource, async_mode) ==
    Lookup(RouteOf(resource).write, async_mode)

get_engine(resource, async_mode) == Lookup(fallback, async_mode)

Call(fn, resource, async_mode) ==
    [fn |-> fn, resource |-> resource, async_mode |-> async_mode]

----------------------------------------------------------------------------
(* Session.get_bind                                                        *)

\* A mapper argument: a Mapper instance, a mapped class, or nothing.
Mappers == [isMapper : BOOLEAN, class_ : Types] \cup
           {[isMapper |-> FALSE, class_ |-> None]}

\* resource = mapper.class_ if isinstance(mapper, Mapper) else mapper
ResourceOf(mapper) == mapper.class_

\* A mutant: a session never reports async mode.
Mut_async_mode(s) == FALSE

\* Session.async_mode
async_mode(s) == s.proxy

\* A mutant: the phases are swapped.
MutPhaseEngine(s, resource) ==
    IF s.flushing
    THEN [fn |-> "get_read_engine",
          engine |-> get_read_engine(resource, async_mode(s))]
    ELSE [fn |-> "get_write_engine",
          engine |-> get_write_engine(resource, async_mode(s))]

\* The engine the phase selects, and the router method asked for it.
PhaseEngine(s, resource) ==
    IF s.flushing
    THEN [fn |-> "get_write_engine",
          engine |-> get_write_engine(resource, async_mode(s))]
    ELSE [fn |-> "get_read_engine",
          engine |-> get_read_engine(resource, async_mode(s))]

\* A mutant: the router default is asked first and wins when it exists.
MutRouted(s, resource) ==
    LET first == PhaseEngine(s, resource)
        c0 == <<Call("get_engine", resource, async_mode(s))>>
        dflt == get_engine(resource, async_mode(s))
    IN  IF dflt # NoEngine
        THEN [calls |-> c0, engine |-> dflt]
        ELSE [calls |-> c0 \o <<Call(first.fn, resource, async_mode(s))>>,
              engine |-> first.engine]

\* The routed part of get_bind: the calls made on the router and the engine
\* suggested (NoEngine when the router suggests none).
Routed(s, resource) ==
    LET first == PhaseEngine(s, resource)
        c1 == <<Call(first.fn, resource, async_mode(s))>>
    IN  IF first.engine # NoEngine
        THEN [calls |-> c1, engine |-> first.engine]
        ELSE [calls |-> c1 \o <<Call("get_engine", resource, async_mode(s))>>,
              engine |-> get_engine(resource, async_mode(s))]

SuperGetBind == <<Call("super", None, FALSE)>>

\* A mutant: the explicit bind is only honoured outside of the flushing phase.
Mut_get_bind(s, mapper) ==
    IF s.bind # NoEngine /\ ~s.flushing
    THEN [calls |-> <<>>, bind |-> s.bind]
    ELSE IF s.routing
         THEN LET r == Routed(s, ResourceOf(mapper))
              IN  IF r.engine # NoEngine
                  THEN [calls |-> r.calls,
                        bind |-> IF r.engine.async
                                 THEN sync_engine(r.engine) ELSE r.engine]
                  ELSE [calls |-> r.calls \o SuperGetBind,
                        bind |-> DefaultBind]
         ELSE [calls |-> SuperGetBind, bind |-> DefaultBind]

get_bind(s, mapper) ==
    IF s.bind # NoEngine
    THEN [calls |-> <<>>, bind |-> s.bind]
    ELSE IF s.routing
         THEN LET r == Routed(s, ResourceOf(mapper))
              IN  IF r.engine # NoEngine
                  THEN [calls |-> r.calls,
                        bind |-> IF r.engine.async
                                 THEN sync_engine(r.engine) ELSE r.engine]
                  ELSE [calls |-> r.calls \o SuperGetBind,
                        bind |-> DefaultBind]
         ELSE [calls |-> SuperGetBind, bind |-> DefaultBind]

NoCall == [called |-> FALSE, mapper |-> [isMapper |-> FALSE, class_ |-> None],
           flushing |-> FALSE, calls |-> <<>>, bind |-> NoEngine]

\* Session.__init__: bind, routing and proxy are set; nothing is flushing.
Construct(bind, routing, proxy) ==
    /\ sess' = [bind |-> bind, routing |-> routing, proxy |-> proxy,
                flushing |-> FALSE]
    /\ lastBind' = NoCall
    /\ UNCHANGED <<routes, fallback, scopeVars, commitVars, bulkVars, unitVars>>

\* The session enters its flushing phase (flush, or the flush of a commit).
BeginFlush ==
    /\ ~sess.flushing
    /\ sess' = [sess EXCEPT !.flushing = TRUE]
    /\ UNCHANGED <<routes, fallback, lastBind, scopeVars, commitVars, bulkVars, unitVars>>

EndFlush ==
    /\ sess.flushing
    /\ sess' = [sess EXCEPT !.flushing = FALSE]
    /\ UNCHANGED <<routes, fallback, lastBind, scopeVars, commitVars, bulkVars, unitVars>>

\* One operation of the session asks for its bind.
Bind(mapper) ==
    /\ LET r == get_bind(sess, mapper)
       IN  lastBind' = [called |-> TRUE, mapper |-> mapper,
                        flushing |-> sess.flushing,
                        calls |-> r.calls, bind |-> r.bind]
    /\ UNCHANGED <<routes, fallback, sess, scopeVars, commitVars, bulkVars, unitVars>>

Routes == [Types -> [read : EngineNames \cup {None},
                     write : EngineNames \cup {None}]]

InitBind ==
    /\ routes \in Routes
    /\ fallback \in EngineNames \cup {None}
    /\ sess = [bind |-> NoEngine, routing |-> FALSE, proxy |-> FALSE,
               flushing |-> FALSE]
    /\ lastBind = NoCall
    /\ app = None
    /\ ambient = 0
    /\ sessions = <<>>
    /\ registry = [a \in BOOLEAN |-> 0]
    /\ stack = <<>>
    /\ entered = 0
    /\ last = [op |-> "none"]
    /\ expire_on_commit = "True"
    /\ CommitIdle
    /\ UnitIdle
    /\ BulkIdle

NextBind ==
    \/ \E b \in ExplicitBinds \cup {NoEngine}, r \in BOOLEAN, p \in BOOLEAN :
          Construct(b, r, p)
    \/ BeginFlush
    \/ EndFlush
    \/ \E m \in Mappers : Bind(m)

SpecBind == InitBind /\ [][NextBind]_vars

----------------------------------------------------------------------------
(* Session scopes: session_manager and async_session_manager.              *)

MaxDepth == 2     \* scopes nested at one time
MaxScopes == 2    \* scopes entered in one behaviour

\* Exceptions are chains of class names: the exception first, then its
\* __cause__, then the cause of that.
BodyErrors == {"ValueError"}

\* BaseException subclasses that are not Exception subclasses.
Signals == {"CancelledError"}

\* A mutant: the handler catches BaseException.
MutIsException(exc) == TRUE

IsException(exc) == Head(exc) \notin Signals

Yield == [kind |-> "yield", exc |-> <<>>]
Return == [kind |-> "return", exc |-> <<>>]
Raise(exc) == [kind |-> "raise", exc |-> exc]

\* raise cls(...) from error
RaiseFrom(cls, error) == Raise(<<cls>> \o error)

OnExits == {"commit", "flush", "rollback", None}
OnMissing == {"create", "raise"}
Usings == {None, "plain", "scoped"}

\* A session factory of one concurrency mode: a sessionmaker, or a
\* scoped_session around one.
Factory(async, scoped) == [async |-> async, scoped |-> scoped]
NoFactory == [async |-> FALSE, scoped |-> FALSE, none |-> TRUE]

NewSession(async) == [async |-> async, closes |-> 0]

\* factory(): a sessionmaker creates a session; a scoped_session returns the
\* session of its registry, creating it when the registry is empty.
FactoryCall(factory) ==
    IF factory.scoped /\ registry[factory.async] # 0
    THEN [session |-> registry[factory.async], sessions |-> sessions,
          registry |-> registry]
    ELSE LET id == Len(sessions) + 1
         IN  [session |-> id,
              sessions |-> Append(sessions, NewSession(factory.async)),
              registry |-> IF factory.scoped
                           THEN [registry EXCEPT ![factory.async] = id]
                           ELSE registry]

\* The factory a scope creates its session from, or the error raised for
\* want of one.
ResolveFactory(async, using) ==
    IF using # None
    THEN [ok |-> TRUE, factory |-> Factory(async, using = "scoped"),
          exc |-> <<>>]
    ELSE IF app # None
         THEN [ok |-> TRUE, factory |-> Factory(async, app = "scoped"),
               exc |-> <<>>]
         ELSE [ok |-> FALSE, factory |-> NoFactory,
               exc |-> IF async THEN <<"SessionError">>
                       ELSE <<"UnboundLocalError">>]

Args(async, using, new, on_missing, on_exit) ==
    [async |-> async, using |-> using, new |-> new,
     on_missing |-> on_missing, on_exit |-> on_exit]

Frame(args, owner, factory, session, token) ==
    [async |-> args.async, on_exit |-> args.on_exit, owner |-> owner,
     factory |-> factory, session |-> session, token |-> token]

\* What entering a scope does: the outcome (yield or an error), the frame
\* of the scope when it yields, the lifecycle steps taken, and the state
\* it leaves.
\* A mutant: on_missing is not looked at.
MutEnterScope(args) ==
    LET fac == ResolveFactory(args.async, args.using)
        made == FactoryCall(fac.factory)
        same == [sessions |-> sessions, registry |-> registry,
                 ambient |-> ambient]
    IN  IF ~args.new /\ ambient # 0 /\ sessions[ambient].async = args.async
        THEN [out |-> Yield, trace |-> <<>>, state |-> same,
              frame |-> Frame(args, FALSE, NoFactory, ambient, 0)]
        ELSE IF ~args.new /\ ambient # 0
        THEN [out |-> Raise(<<"RuntimeError">>), trace |-> <<>>,
              state |-> same]
        ELSE IF ~fac.ok
        THEN [out |-> Raise(fac.exc), trace |-> <<>>, state |-> same]
        ELSE [out |-> Yield, trace |-> <<"factory", "set">>,
              state |-> [sessions |-> made.sessions,
                         registry |-> made.registry,
                         ambient |-> made.session],
              frame |-> Frame(args, TRUE, fac.factory, made.session, ambient)]

\* A mutant: the class of the ambient session is not looked at.
MutEnterScopeAnyClass(args) ==
    LET fac == ResolveFactory(args.async, args.using)
        made == FactoryCall(fac.factory)
        same == [sessions |-> sessions, registry |-> registry,
                 ambient |-> ambient]
    IN  IF ~args.new /\ ambient # 0
        THEN [out |-> Yield, trace |-> <<>>, state |-> same,
              frame |-> Frame(args, FALSE, NoFactory, ambient, 0)]
        ELSE IF ~args.new /\ args.on_missing = "raise"
        THEN [out |-> Raise(<<"RuntimeError">>), trace |-> <<>>,
              state |-> same]
        ELSE IF ~fac.ok
        THEN [out |-> Raise(fac.exc), trace |-> <<>>, state |-> same]
        ELSE [out |-> Yield, trace |-> <<"factory", "set">>,
              state |-> [sessions |-> made.sessions,
                         registry |-> made.registry,
                         ambient |-> made.session],
              frame |-> Frame(args, TRUE, fac.factory, made.session, ambient)]

EnterScope(args) ==
    LET fac == ResolveFactory(args.async, args.using)
        made == FactoryCall(fac.factory)
        same == [sessions |-> sessions, registry |-> registry,
                 ambient |-> ambient]
    IN  IF ~args.new /\ ambient # 0 /\ sessions[ambient].async = args.async
        THEN [out |-> Yield, trace |-> <<>>, state |-> same,
              frame |-> Frame(args, FALSE, NoFactory, ambient, 0)]
        ELSE IF ~args.new /\ ambient # 0
        THEN [out |-> Raise(<<"RuntimeError">>), trace |-> <<>>,
              state |-> same]
        ELSE IF ~args.new /\ args.on_missing = "raise"
        THEN [out |-> Raise(<<"RuntimeError">>), trace |-> <<>>,
              state |-> same]
        ELSE IF ~fac.ok
        THEN [out |-> Raise(fac.exc), trace |-> <<>>, state |-> same]
        ELSE [out |-> Yield, trace |-> <<"factory", "set">>,
              state |-> [sessions |-> made.sessions,
                         registry |-> made.registry,
                         ambient |-> made.session],
              frame |-> Frame(args, TRUE, fac.factory, made.session, ambient)]

\* session_dependency() / async_session_dependency(): the scope the
\* helper enters, session_manager(on_missing='raise') and its cooperative
\* twin, every other argument at its default.
session_dependency(async) == Args(async, None, FALSE, "raise", None)

\* The ambient session, the sessions and the registries as a call finds them.
Snapshot == [ambient |-> ambient, sessions |-> sessions,
             registry |-> registry]

\* Entering a scope: the manager runs up to its yield, or raises.
Enter(async, using, new, on_missing, on_exit) ==
    /\ entered < MaxScopes
    /\ Len(stack) < MaxDepth
    /\ LET args == Args(async, using, new, on_missing, on_exit)
           r == EnterScope(args)
       IN  /\ last' = [op |-> "enter", args |-> args, before |-> Snapshot,
                       out |-> r.out, trace |-> r.trace,
                       owner |-> r.out.kind = "yield" /\ r.frame.owner,
                       session |-> IF r.out.kind = "yield"
                                   THEN r.frame.session ELSE 0]
           /\ stack' = IF r.out.kind = "yield"
                       THEN Append(stack, r.frame) ELSE stack
           /\ sessions' = r.state.sessions
           /\ registry' = r.state.registry
           /\ ambient' = r.state.ambient
    /\ entered' = entered + 1
    /\ UNCHANGED <<app, bindVars, commitVars, bulkVars, unitVars>>

\* A mutant: a scope entered without on_exit commits.
MutFinalizeCommits(on_exit) ==
    IF on_exit = "flush" THEN <<"flush">>
    ELSE IF on_exit = "rollback" THEN <<"rollback">>
    ELSE <<"commit">>

\* finalize(session): the calls the on-exit action makes on the session.
finalize(on_exit) ==
    IF on_exit = "commit" THEN <<"commit">>
    ELSE IF on_exit = "flush" THEN <<"flush">>
    ELSE IF on_exit = "rollback" THEN <<"rollback">>
    ELSE <<>>

\* What a failing session operation raises.
OperationFailure == Raise(<<"OperationalError">>)

\* A mutant: the failure is raised without its cause.
MutGuarded(frame, body, fails) ==
    IF body.kind = "return"
    THEN [calls |-> finalize(frame.on_exit),
          out |-> IF fails /\ finalize(frame.on_exit) # <<>>
                  THEN OperationFailure ELSE Return]
    ELSE IF IsException(body.exc)
    THEN [calls |-> <<"rollback">>,
          out |-> IF fails THEN OperationFailure
                  ELSE Raise(<<"DatabaseError">>)]
    ELSE [calls |-> <<>>, out |-> body]

\* A mutant: the on-exit action also runs once the handler has rolled
\* back.
MutGuardedFinalizesAfterError(frame, body, fails) ==
    IF body.kind = "return"
    THEN [calls |-> finalize(frame.on_exit),
          out |-> IF fails /\ finalize(frame.on_exit) # <<>>
                  THEN OperationFailure ELSE Return]
    ELSE IF IsException(body.exc)
    THEN [calls |-> <<"rollback">> \o finalize(frame.on_exit),
          out |-> IF fails THEN OperationFailure
                  ELSE RaiseFrom("DatabaseError", body.exc)]
    ELSE [calls |-> <<>>, out |-> body]

\* The try statement of a scope that created its session, up to its finally
\* clause: the calls made on the session and the outcome. fails: the call
\* made on the session raises.
Guarded(frame, body, fails) ==
    IF body.kind = "return"
    THEN [calls |-> finalize(frame.on_exit),
          out |-> IF fails /\ finalize(frame.on_exit) # <<>>
                  THEN OperationFailure ELSE Return]
    ELSE IF IsException(body.exc)
    THEN [calls |-> <<"rollback">>,
          out |-> IF fails THEN OperationFailure
                  ELSE RaiseFrom("DatabaseError", body.exc)]
    ELSE [calls |-> <<>>, out |-> body]

\* A mutant: the on-exit action runs in a finally clause.
MutShared(frame, body, fails) ==
    [calls |-> finalize(frame.on_exit),
     out |-> IF fails /\ finalize(frame.on_exit) # <<>>
             THEN OperationFailure
             ELSE IF body.kind = "return" THEN Return ELSE body]

\* The scope that yielded the ambient session: yield, finalize, return.
Shared(frame, body, fails) ==
    IF body.kind = "return"
    THEN [calls |-> finalize(frame.on_exit),
          out |-> IF fails /\ finalize(frame.on_exit) # <<>>
                  THEN OperationFailure ELSE Return]
    ELSE [calls |-> <<>>, out |-> body]

\* session.close()
Close(ss, id) == [ss EXCEPT ![id].closes = @ + 1]

\* A mutant: the session is released before the ambient session is reset.
MutReleaseFirst(frame) ==
    IF frame.factory.scoped
    THEN [calls |-> <<"remove", "reset">>,
          sessions |-> IF registry[frame.async] # 0
                       THEN Close(sessions, registry[frame.async])
                       ELSE sessions,
          registry |-> [registry EXCEPT ![frame.async] = 0],
          ambient |-> frame.token]
    ELSE [calls |-> <<"close", "reset">>,
          sessions |-> Close(sessions, frame.session),
          registry |-> registry,
          ambient |-> frame.token]

\* A mutant: the ambient session is cleared instead of reset to the token.
MutRelease(frame) ==
    IF frame.factory.scoped
    THEN [calls |-> <<"reset", "remove">>,
          sessions |-> IF registry[frame.async] # 0
                       THEN Close(sessions, registry[frame.async])
                       ELSE sessions,
          registry |-> [registry EXCEPT ![frame.async] = 0],
          ambient |-> 0]
    ELSE [calls |-> <<"reset", "close">>,
          sessions |-> Close(sessions, frame.session),
          registry |-> registry,
          ambient |-> 0]

\* The finally clause: the ambient session is reset to the token's value and
\* the session is released, through remove() of a scoped factory (which
\* closes the session of its registry, if any, and empties it) or closed.
Release(frame) ==
    IF frame.factory.scoped
    THEN [calls |-> <<"reset", "remove">>,
          sessions |-> IF registry[frame.async] # 0
                       THEN Close(sessions, registry[frame.async])
                       ELSE sessions,
          registry |-> [registry EXCEPT ![frame.async] = 0],
          ambient |-> frame.token]
    ELSE [calls |-> <<"reset", "close">>,
          sessions |-> Close(sessions, frame.session),
          registry |-> registry,
          ambient |-> frame.token]

NoRelease == [calls |-> <<>>, sessions |-> sessions, registry |-> registry,
              ambient |-> ambient]

\* A mutant: the release is skipped when the call on the session raised.
MutExitScope(frame, body, fails) ==
    IF frame.owner
    THEN [run |-> Guarded(frame, body, fails),
          end |-> IF Guarded(frame, body, fails).out = OperationFailure
                  THEN NoRelease ELSE Release(frame)]
    ELSE [run |-> Shared(frame, body, fails), end |-> NoRelease]

\* A mutant: a scope releases the session whether or not it created it.
MutExitScopeOwnsAll(frame, body, fails) ==
    IF frame.owner
    THEN [run |-> Guarded(frame, body, fails), end |-> Release(frame)]
    ELSE [run |-> Shared(frame, body, fails), end |-> Release(frame)]

\* What leaving a scope does, given how its body ended.
ExitScope(frame, body, fails) ==
    IF frame.owner
    THEN [run |-> Guarded(frame, body, fails), end |-> Release(frame)]
    ELSE [run |-> Shared(frame, body, fails), end |-> NoRelease]

\* The body of the innermost scope ends (it returns, or raises an error or a
\* signal) and the manager runs to its end.
Exit(body, fails) ==
    /\ stack # <<>>
    /\ LET frame == stack[Len(stack)]
           r == ExitScope(frame, body, fails)
       IN  /\ last' = [op |-> "exit", frame |-> frame, before |-> Snapshot,
                       body |-> body, fails |-> fails,
                       trace |-> r.run.calls \o r.end.calls,
                       out |-> r.run.out]
           /\ stack' = SubSeq(stack, 1, Len(stack) - 1)
           /\ sessions' = r.end.sessions
           /\ registry' = r.end.registry
           /\ ambient' = r.end.ambient
    /\ UNCHANGED <<app, entered, bindVars, commitVars, bulkVars, unitVars>>

\* The ways a body can end: it returns, raises an error of its own, is hit
\* by a signal, or lets the error of the scope it just used propagate.
BodyEnds ==
    {Return} \cup {Raise(<<e>>) : e \in BodyErrors \cup Signals}
    \cup (IF last.op # "none" /\ last.out.kind = "raise"
          THEN {last.out} ELSE {})

NoLast == [op |-> "none"]

Init ==
    /\ app \in {None, "plain"}
    /\ ambient = 0
    /\ sessions = <<>>
    /\ registry = [a \in BOOLEAN |-> 0]
    /\ stack = <<>>
    /\ entered = 0
    /\ last = NoLast
    /\ routes = [t \in Types |-> [read |-> None, write |-> None]]
    /\ fallback = None
    /\ sess = [bind |-> NoEngine, routing |-> FALSE, proxy |-> FALSE,
               flushing |-> FALSE]
    /\ lastBind = NoCall
    /\ expire_on_commit = "True"
    /\ CommitIdle
    /\ UnitIdle
    /\ BulkIdle

Next ==
    \/ \E async \in BOOLEAN, using \in Usings, new \in BOOLEAN,
          on_missing \in OnMissing, on_exit \in OnExits :
          Enter(async, using, new, on_missing, on_exit)
    \/ \E body \in BodyEnds, fails \in BOOLEAN : Exit(body, fails)

Spec == Init /\ [][Next]_vars

\* No session of get_bind, no scope: the state the other parts start from.
BindIdle ==
    /\ routes = [t \in Types |-> [read |-> None, write |-> None]]
    /\ fallback = None
    /\ sess = [bind |-> NoEngine, routing |-> FALSE, proxy |-> FALSE,
               flushing |-> FALSE]
    /\ lastBind = NoCall

ScopeIdle ==
    /\ app = None
    /\ ambient = 0
    /\ sessions = <<>>
    /\ registry = [a \in BOOLEAN |-> 0]
    /\ stack = <<>>
    /\ entered = 0
    /\ last = NoLast

\* A session, constructed with either value of expire_on_commit, on which
\* commit is called time and again, with and without an override.
InitCommit ==
    /\ expire_on_commit \in Settings
    /\ CommitIdle
    /\ UnitIdle
    /\ BulkIdle
    /\ BindIdle
    /\ ScopeIdle

NextCommit ==
    \/ \E async \in BOOLEAN, expire \in Expires : CommitBegin(async, expire)
    \/ \E fails \in BOOLEAN : CommitEnd(fails)
    \/ \E value \in Settings : SetExpire(value)

SpecCommit == InitCommit /\ [][NextCommit]_vars

\* Two tasks that share a cooperative session each call commit once, with
\* or without an override, in every interleaving.
InitOverlap ==
    /\ expire_on_commit \in Settings
    /\ CommitIdle
    /\ UnitIdle
    /\ BulkIdle
    /\ BindIdle
    /\ ScopeIdle

NextOverlap ==
    \/ \E c \in Callers, expire \in Expires : OverlapBegin(c, expire)
    \/ \E c \in Callers, fails \in BOOLEAN : OverlapEnd(c, fails)

SpecOverlap == InitOverlap /\ [][NextOverlap]_vars

----------------------------------------------------------------------------
(* Session.bulk / AsyncSession.bulk, the entries of a bulk and the proxies *)
(* of its references.                                                      *)

MaxBulks == 2
MaxEntries == 2

\* The identities of the resources registered: a type and an id.
Keys == {<<"Order", 42>>, <<"Order", 7>>, <<"Item", 7>>}

Kinds == {"reference", "value"}

\* SessionBulk(self, proxy_reference=...): nothing registered, no shared
\* instance yet.
NewBulk(session, proxy_reference) ==
    [session |-> session, proxy_reference |-> proxy_reference,
     entries |-> <<>>, shared |-> [k \in Keys |-> "absent"]]

\* A registered entry. A reference knows the key of its resource only; a
\* value is an instance carrying the fields it was given. A reference of a
\* bulk with proxy_reference is handed out behind a proxy.
NewEntry(bulk, kind, type, id) ==
    [kind |-> kind, type |-> type, id |-> id, status |-> "pending",
     proxied |-> kind = "reference" /\ bulk.proxy_reference,
     target |-> "own",
     data |-> IF kind = "reference" THEN "key" ELSE "stale"]

\* Proxy.__proxy__(): the instance a reference stands for, its own or the
\* one shared by the references of its identity.
ProxyTarget(bulk, entry) ==
    IF entry.target = "shared" THEN bulk.shared[<<entry.type, entry.id>>]
    ELSE entry.data

\* Proxy.__getattr__: attribute access goes to the target.
ProxyGet(b, i) == ProxyTarget(bulks[b], bulks[b].entries[i])

\* A mutant: the attribute is set on the instance the proxy was created
\* with.
MutProxySet(b, i, value) == [bulks EXCEPT ![b].entries[i].data = value]

\* Proxy.__setattr__: the attribute is set on the target.
ProxySet(b, i, value) ==
    LET entry == bulks[b].entries[i]
    IN  IF entry.target = "shared"
        THEN [bulks EXCEPT ![b].shared[<<entry.type, entry.id>>] = value]
        ELSE [bulks EXCEPT ![b].entries[i].data = value]

\* A mutant: the ambient bulk is cleared on exit.
MutBulkRelease(frame) == [ambient |-> 0, bulks |-> bulks]

\* The finally clause of bulk(): SESSION_BULK_CONTEXT.reset(token).
BulkRelease(frame) == [ambient |-> frame.token, bulks |-> bulks]

\* session.bulk(proxy_reference=...) up to its yield.
BulkEnter(session, proxy_reference) ==
    /\ Len(bulks) < MaxBulks
    /\ resolving.state # "running"
    /\ LET id == Len(bulks) + 1
       IN  /\ bulks' = Append(bulks, NewBulk(session, proxy_reference))
           /\ bstack' = Append(bstack, [bulk |-> id, token |-> bulk_ambient])
           /\ bulk_ambient' = id
           /\ lastBulk' = [op |-> "enter", bulk |-> id,
                           session |-> session, before |-> bulk_ambient]
    /\ resolving' = NoResolve
    /\ UNCHANGED <<bindVars, scopeVars, commitVars, unitVars>>

\* The body of the innermost bulk scope ends, however it does.
BulkExit(body) ==
    /\ bstack # <<>>
    /\ resolving.state # "running"
    /\ LET frame == bstack[Len(bstack)]
           r == BulkRelease(frame)
       IN  /\ bulk_ambient' = r.ambient
           /\ bulks' = r.bulks
           /\ lastBulk' = [op |-> "exit", bulk |-> frame.bulk,
                           before |-> bulk_ambient,
                           entries |-> bulks[frame.bulk].entries,
                           token |-> frame.token, out |-> body]
    /\ bstack' = SubSeq(bstack, 1, Len(bstack) - 1)
    /\ resolving' = NoResolve
    /\ UNCHANGED <<bindVars, scopeVars, commitVars, unitVars>>

RECURSIVE EntryCount(_, _)
EntryCount(bs, n) ==
    IF n = 0 THEN 0 ELSE EntryCount(bs, n - 1) + Len(bs[n].entries)

\* Validation registers a reference or a value with the ambient bulk.
Register(kind, type, id) ==
    /\ <<type, id>> \in Keys
    /\ bulk_ambient # 0
    /\ resolving.state # "running"
    /\ EntryCount(bulks, Len(bulks)) < MaxEntries
    /\ bulks' = [bulks EXCEPT ![bulk_ambient].entries =
                    Append(@, NewEntry(bulks[bulk_ambient], kind, type, id))]
    /\ lastBulk' = NoBulkOp
    /\ resolving' = NoResolve
    /\ UNCHANGED <<bulk_ambient, bstack, bindVars, scopeVars, commitVars, unitVars>>

\* The caller sets a field of a resolved reference through its proxy.
Mutate(b, i) ==
    /\ resolving.state # "running"
    /\ bulks[b].entries[i].proxied
    /\ bulks[b].entries[i].status = "resolved"
    /\ bulks' = ProxySet(b, i, "edited")
    /\ lastBulk' = [op |-> "mutate", bulk |-> b, entry |-> i]
    /\ resolving' = NoResolve
    /\ UNCHANGED <<bulk_ambient, bstack, bindVars, scopeVars, commitVars, unitVars>>

----------------------------------------------------------------------------
(* The resolver of a bulk (Bulk._resolver), a generator: it emits units of *)
(* work, takes their results and updates the entries.                      *)

Scopes == {"all", "references", "values"}
Strategies == {"bind", "hydrate"}

\* The rows the storage holds: there is no Order 7.
Stored == {<<"Order", 42>>, <<"Item", 7>>}

\* An entry the resolver of this scope has to deal with.
InScope(entry, scope) ==
    /\ entry.status = "pending"
    /\ \/ scope = "all"
       \/ scope = "references" /\ entry.kind = "reference"
       \/ scope = "values" /\ entry.kind = "value"

Batch(entries, scope, type) ==
    {i \in DOMAIN entries : InScope(entries[i], scope)
                            /\ entries[i].type = type}

\* The resource types of the pending entries, in order of registration.
RECURSIVE PendingTypes(_, _, _)
PendingTypes(entries, scope, n) ==
    IF n = 0 THEN <<>>
    ELSE LET prev == PendingTypes(entries, scope, n - 1)
         IN  IF InScope(entries[n], scope)
                /\ \A k \in DOMAIN prev : prev[k] # entries[n].type
             THEN Append(prev, entries[n].type) ELSE prev

\* The target fields of a strategy.
Fields(strategy) == IF strategy = "bind" THEN "identity" ELSE "all"

\* A mutant: one unit of work per pending entry.
MutUnitsPerEntry(entries, scope, strategy) ==
    LET RECURSIVE Each(_)
        Each(n) ==
            IF n = 0 THEN <<>>
            ELSE IF InScope(entries[n], scope)
            THEN Append(Each(n - 1),
                        [fields |-> Fields(strategy), type |-> entries[n].type,
                         ids |-> {entries[n].id}])
            ELSE Each(n - 1)
    IN  Each(Len(entries))

\* One unit of work per resource type: the target fields and the query
\* for the identities of the pending entries of that type.
Units(entries, scope, strategy) ==
    LET types == PendingTypes(entries, scope, Len(entries))
    IN  [k \in DOMAIN types |->
            [fields |-> Fields(strategy), type |-> types[k],
             ids |-> {entries[i].id : i \in Batch(entries, scope, types[k])}]]

\* session.execute(statement): the rows found.
Rows(unit) == {id \in unit.ids : <<unit.type, id>> \in Stored}

\* A mutant: every field of the row is applied, whatever the target fields.
MutApplied(fields) == "fresh"

\* What an instance holds once the fields of a row are applied to it.
Applied(fields) == IF fields = "identity" THEN "identity" ELSE "fresh"

\* The resolver takes the result of the batch of one type: an entry whose
\* row was found is resolved and updated (a proxied reference through the
\* instance shared by its identity), any other is failed.
Fed(bulk, scope, type, fields, result) ==
    LET es == bulk.entries
        hit == {i \in Batch(es, scope, type) : es[i].id \in result}
    IN  [bulk EXCEPT
           !.entries = [i \in DOMAIN es |->
              IF i \in hit
              THEN [es[i] EXCEPT
                      !.status = "resolved",
                      !.target = IF es[i].proxied THEN "shared" ELSE "own",
                      !.data = IF es[i].proxied THEN @ ELSE Applied(fields)]
              ELSE IF i \in Batch(es, scope, type)
              THEN [es[i] EXCEPT !.status = "failed"]
              ELSE es[i]],
           !.shared = [k \in Keys |->
              IF \E i \in hit : es[i].proxied /\ <<es[i].type, es[i].id>> = k
              THEN Applied(fields) ELSE bulk.shared[k]]]

\* The resolver runs to its next yield, or to its end: StopIteration, or
\* the aggregated failure when raise_errors is set and entries failed.
ResolverAdvance(r) ==
    IF r.queue # <<>>
    THEN [r EXCEPT !.signal = "yield", !.context = Head(r.queue),
                   !.queue = Tail(r.queue),
                   !.emitted = Append(r.emitted, Head(r.queue))]
    ELSE IF r.raise_errors /\ r.unresolved # {}
    THEN [r EXCEPT !.signal = "raise"]
    ELSE [r EXCEPT !.signal = "stop"]

NoUnit == [fields |-> None, type |-> None, ids |-> {}]

\* self._resolver(raise_errors=..., scope=..., strategy=...)
Resolver(b, raise_errors, scope, strategy) ==
    [state |-> "running", bulk |-> b, raise_errors |-> raise_errors,
     scope |-> scope, strategy |-> strategy,
     queue |-> Units(bulks[b].entries, scope, strategy),
     context |-> NoUnit, signal |-> None, emitted |-> <<>>,
     resolved |-> {}, unresolved |-> {},
     skipped |-> {i \in DOMAIN bulks[b].entries :
                     bulks[b].entries[i].status = "failed"},
     outstanding |-> <<>>, issued |-> <<>>, fed |-> <<>>, exc |-> <<>>]

\* resolver.send((fields, result))
ResolverSend(r, bulk, fields, result) ==
    LET batch == Batch(bulk.entries, r.scope, r.context.type)
        hit == {i \in batch : bulk.entries[i].id \in result}
    IN  [bulk |-> Fed(bulk, r.scope, r.context.type, fields, result),
         r |-> ResolverAdvance([r EXCEPT !.resolved = @ \cup hit,
                                         !.unresolved = @ \cup (batch \ hit)])]

----------------------------------------------------------------------------
(* SessionBulk.resolve / AsyncSessionBulk.resolve: the loop that drives    *)
(* the resolver.                                                           *)

\* A mutant: the loop catches every exception of the resolver.
MutDriveSwallows(r) ==
    IF r.signal = "yield"
    THEN [r EXCEPT !.outstanding = <<r.context>>,
                   !.issued = Append(r.issued, r.context)]
    ELSE [r EXCEPT !.state = "returned"]

\* A mutant: the statement of a unit is executed again when its result is
\* in.
MutDriveTwice(r) ==
    IF r.signal = "yield"
    THEN [r EXCEPT !.outstanding = <<r.context>>,
                   !.issued = Append(Append(r.issued, r.context), r.context)]
    ELSE IF r.signal = "stop"
    THEN [r EXCEPT !.state = "returned"]
    ELSE [r EXCEPT !.state = "raised", !.exc = <<"ResolutionError">>]

\* The loop, once the resolver has run to a yield or to its end: the
\* statement of the unit it yielded is executed; StopIteration ends the
\* call; anything else the resolver raises leaves the call.
Drive(r) ==
    IF r.signal = "yield"
    THEN [r EXCEPT !.outstanding = <<r.context>>,
                   !.issued = Append(r.issued, r.context)]
    ELSE IF r.signal = "stop"
    THEN [r EXCEPT !.state = "returned"]
    ELSE [r EXCEPT !.state = "raised", !.exc = <<"ResolutionError">>]

\* bulk.resolve(...) up to the first statement it executes, or to its end
\* when the resolver has nothing to emit.
Resolve(b, raise_errors, scope, strategy) ==
    /\ resolving.state # "running"
    /\ resolving' =
          Drive(ResolverAdvance(Resolver(b, raise_errors, scope, strategy)))
    /\ lastBulk' = NoBulkOp
    /\ UNCHANGED <<bulk_ambient, bulks, bstack,
                   bindVars, scopeVars, commitVars, unitVars>>

\* A mutant: a statement that fails is passed over and the loop goes on
\* with the next unit of the resolver.
MutExecutedSkipsFailure(fails) ==
    /\ resolving.state = "running"
    /\ resolving.outstanding # <<>>
    /\ LET unit == Head(resolving.outstanding)
           r == [resolving EXCEPT !.outstanding = Tail(@)]
           sent == ResolverSend(r, bulks[r.bulk], unit.fields, Rows(unit))
       IN  IF fails
           THEN /\ resolving' = Drive(ResolverAdvance(r))
                /\ UNCHANGED bulks
           ELSE /\ resolving' =
                      Drive([sent.r EXCEPT
                               !.fed = Append(@, <<unit.fields, Rows(unit)>>)])
                /\ bulks' = [bulks EXCEPT ![r.bulk] = sent.bulk]
    /\ UNCHANGED <<bulk_ambient, bstack, lastBulk,
                   bindVars, scopeVars, commitVars, unitVars>>

\* The statement under execution ends: it raises, or its result is sent to
\* the resolver, and the loop goes on with what the resolver does next.
Executed(fails) ==
    /\ resolving.state = "running"
    /\ resolving.outstanding # <<>>
    /\ LET unit == Head(resolving.outstanding)
           r == [resolving EXCEPT !.outstanding = Tail(@)]
           sent == ResolverSend(r, bulks[r.bulk], unit.fields, Rows(unit))
       IN  IF fails
           THEN /\ resolving' = [r EXCEPT !.state = "raised",
                                          !.exc = <<"OperationalError">>]
                /\ UNCHANGED bulks
           ELSE /\ resolving' =
                      Drive([sent.r EXCEPT
                               !.fed = Append(@, <<unit.fields, Rows(unit)>>)])
                /\ bulks' = [bulks EXCEPT ![r.bulk] = sent.bulk]
    /\ UNCHANGED <<bulk_ambient, bstack, lastBulk,
                   bindVars, scopeVars, commitVars, unitVars>>

\* Two sessions, a blocking and a cooperative one.
TwoSessions ==
    /\ app = None
    /\ ambient = 0
    /\ sessions = <<NewSession(FALSE), NewSession(TRUE)>>
    /\ registry = [a \in BOOLEAN |-> 0]
    /\ stack = <<>>
    /\ entered = 0
    /\ last = NoLast

\* Bulk scopes are opened on the two sessions, nested, filled with
\* references to and values of one resource, and left.
InitBulk ==
    /\ BulkIdle
    /\ TwoSessions
    /\ BindIdle
    /\ expire_on_commit = "True"
    /\ CommitIdle
    /\ UnitIdle

NextBulk ==
    \/ \E session \in DOMAIN sessions, proxy_reference \in BOOLEAN :
          BulkEnter(session, proxy_reference)
    \/ \E body \in {Return} \cup {Raise(<<e>>) : e \in BodyErrors \cup Signals} :
          BulkExit(body)
    \/ \E kind \in Kinds : Register(kind, "Order", 42)

SpecBulk == InitBulk /\ [][NextBulk]_vars

\* Inside the bulk scope of one of the sessions, with or without
\* proxy_reference: entries are registered, resolved and written to.
InitResolve ==
    /\ \E session \in {1, 2}, proxy_reference \in BOOLEAN :
          bulks = <<NewBulk(session, proxy_reference)>>
    /\ bulk_ambient = 1
    /\ bstack = <<[bulk |-> 1, token |-> 0]>>
    /\ lastBulk = NoBulkOp
    /\ resolving = NoResolve
    /\ TwoSessions
    /\ BindIdle
    /\ expire_on_commit = "True"
    /\ CommitIdle
    /\ UnitIdle

NextResolve ==
    \/ \E kind \in Kinds, key \in Keys : Register(kind, key[1], key[2])
    \/ \E i \in DOMAIN bulks[1].entries : Mutate(1, i)
    \/ \E raise_errors \in BOOLEAN, scope \in Scopes, strategy \in Strategies :
          Resolve(1, raise_errors, scope, strategy)
    \/ \E fails \in BOOLEAN : Executed(fails)

SpecResolve == InitResolve /\ [][NextResolve]_vars

\* The session a bulk belongs to is closed, as the scope that created the
\* session does when it is left; the bulk and its entries are not touched.
CloseOwner(b) ==
    /\ resolving.state # "running"
    /\ sessions[bulks[b].session].closes = 0
    /\ sessions' = Close(sessions, bulks[b].session)
    /\ resolving' = NoResolve
    /\ lastBulk' = NoBulkOp
    /\ UNCHANGED <<bulk_ambient, bulks, bstack, app, ambient, registry, stack,
                   entered, last, bindVars, commitVars, unitVars>>

\* The bulk of a session that is closed at some point: entries are
\* registered and resolved before and after.
NextClosed ==
    \/ NextResolve
    \/ CloseOwner(1)

SpecClosed == InitResolve /\ [][NextClosed]_vars

----------------------------------------------------------------------------
(* Two execution units, threads or tasks. The context variables and the    *)
(* with statements under way belong to the unit that runs; registries of   *)
(* scoped factories are kept per task (scopefunc = asyncio.current_task)   *)
(* or per thread (scoped_session).                                         *)

UnitKinds == {"thread", "task"}

\* A mutant: the context variables are one global store.
MutResume(ctx) == [ambient |-> ambient, bulk_ambient |-> bulk_ambient]

\* The context variables a unit finds when it runs again: its own.
Resume(ctx) == [ambient |-> ctx.ambient, bulk_ambient |-> ctx.bulk_ambient]

\* The registries of scoped factories as the unit that resumes finds them:
\* its own, but for the thread-local registry of blocking factories when
\* both units are tasks of one thread.
ResumeRegistry(ctx) ==
    [a \in BOOLEAN |-> IF ~a /\ spawned.kind = "task"
                       THEN registry[a] ELSE ctx.registry[a]]

\* A second unit is started: a thread, or a task of the thread that runs.
\* It starts with a copy of the context of its creator (create_task, or a
\* thread that inherits the context) or with an empty context.
Spawn(kind, inherit) ==
    /\ ~parked.started
    /\ parked' = [started |-> TRUE,
                  ambient |-> IF inherit THEN ambient ELSE 0,
                  bulk_ambient |-> IF inherit THEN bulk_ambient ELSE 0,
                  stack |-> <<>>, bstack |-> <<>>,
                  registry |-> [a \in BOOLEAN |-> 0]]
    /\ spawned' = [kind |-> kind,
                   ambient |-> IF inherit THEN ambient ELSE 0,
                   bulk_ambient |-> IF inherit THEN bulk_ambient ELSE 0]
    /\ UNCHANGED <<current, bindVars, scopeVars, commitVars, bulkVars>>

\* The unit that runs is suspended between two of its operations and the
\* other unit runs on.
Switch ==
    /\ parked.started
    /\ current' = 3 - current
    /\ ambient' = Resume(parked).ambient
    /\ bulk_ambient' = Resume(parked).bulk_ambient
    /\ stack' = parked.stack
    /\ bstack' = parked.bstack
    /\ registry' = ResumeRegistry(parked)
    /\ parked' = [started |-> TRUE, ambient |-> ambient,
                  bulk_ambient |-> bulk_ambient, stack |-> stack,
                  bstack |-> bstack, registry |-> registry]
    /\ last' = NoLast
    /\ lastBulk' = NoBulkOp
    /\ UNCHANGED <<spawned, app, sessions, entered, bulks, resolving,
                   bindVars, commitVars>>

\* Two units enter and leave session scopes, and bulk scopes of their
\* ambient session, one at a time each, in any interleaving.
InitUnits ==
    /\ UnitIdle
    /\ ScopeIdle
    /\ BulkIdle
    /\ BindIdle
    /\ expire_on_commit = "True"
    /\ CommitIdle

NextUnits ==
    \/ \E async \in BOOLEAN, using \in {"plain", "scoped"}, new \in BOOLEAN :
          stack = <<>> /\ Enter(async, using, new, "create", None)
    \/ Exit(Return, FALSE)
    \/ ambient # 0 /\ bstack = <<>> /\ BulkEnter(ambient, TRUE)
    \/ BulkExit(Return)
    \/ \E kind \in UnitKinds, inherit \in BOOLEAN : Spawn(kind, inherit)
    \/ Switch

SpecUnits == InitUnits /\ [][NextUnits]_vars

----------------------------------------------------------------------------
(* Properties of Session.get_bind, checked under SpecBind.                 *)

BoundResource == ResourceOf(lastBind.mapper)

\* The session the last get_bind ran on routes through its router.
RoutingInEffect ==
    lastBind.called /\ sess.bind = NoEngine /\ sess.routing

BothConfigured ==
    /\ BoundResource \in Types
    /\ routes[BoundResource].read # None
    /\ routes[BoundResource].write # None

CallNames == [i \in DOMAIN lastBind.calls |-> lastBind.calls[i].fn]

\* C1: for a resource type with both a read and a write engine configured,
\* an operation of a session in its flushing phase binds to the write
\* engine and any other operation binds to the read engine (routing being
\* in effect: a router attached and no explicit bind).
C1_PhaseSelectsEngine ==
    (RoutingInEffect /\ BothConfigured) =>
        /\ lastBind.bind.name = IF lastBind.flushing
                                THEN routes[BoundResource].write
                                ELSE routes[BoundResource].read
        /\ CallNames = IF lastBind.flushing THEN <<"get_write_engine">>
                       ELSE <<"get_read_engine">>

C1_Witness ==
    /\ RoutingInEffect /\ BothConfigured
    /\ lastBind.flushing
    /\ routes[BoundResource].read # routes[BoundResource].write
    /\ lastBind.bind.name = routes[BoundResource].write

\* C2: a session with an explicit bind returns exactly that bind from
\* get_bind, for every resource type and in both phases, and calls none of
\* get_write_engine, get_read_engine, get_engine on the router.
C2_ExplicitBindBypassesRouting ==
    (lastBind.called /\ sess.bind # NoEngine) =>
        /\ lastBind.bind = sess.bind
        /\ lastBind.calls = <<>>

C2_Witness ==
    /\ lastBind.called /\ sess.bind # NoEngine /\ sess.routing
    /\ lastBind.flushing
    /\ BoundResource \in Types
    /\ routes[BoundResource].write \notin {None, sess.bind.name}
    /\ lastBind.bind = sess.bind

PhaseName ==
    IF lastBind.flushing THEN routes[BoundResource].write
    ELSE routes[BoundResource].read

PhaseAbsent == BoundResource \notin Types \/ PhaseName = None

\* C3: without an explicit bind and with a router attached, the engine of
\* the phase (write when flushing, read otherwise) is used when present; the
\* router default is asked only when it is absent; the storage layer's
\* default resolution is reached only when both are absent, or when no
\* router is attached. The non-flushing branch never asks for the write
\* engine and the flushing branch never asks for the read engine.
C3_FallbackOrder ==
    (lastBind.called /\ sess.bind = NoEngine) =>
        IF ~sess.routing
        THEN CallNames = <<"super">> /\ lastBind.bind = DefaultBind
        ELSE LET phase == IF lastBind.flushing THEN "get_write_engine"
                          ELSE "get_read_engine"
             IN  IF ~PhaseAbsent
                 THEN /\ CallNames = <<phase>>
                      /\ lastBind.bind.name = PhaseName
                 ELSE IF fallback # None
                 THEN /\ CallNames = <<phase, "get_engine">>
                      /\ lastBind.bind.name = fallback
                 ELSE /\ CallNames = <<phase, "get_engine", "super">>
                      /\ lastBind.bind = DefaultBind

C3_Witness ==
    /\ RoutingInEffect /\ ~lastBind.flushing
    /\ BoundResource \in Types
    /\ routes[BoundResource].read = None
    /\ routes[BoundResource].write \notin {None, fallback}
    /\ fallback # None
    /\ lastBind.bind.name = fallback

----------------------------------------------------------------------------
(* Properties of the session scopes, checked under Spec.                   *)

Count(e, seq) == Cardinality({i \in DOMAIN seq : seq[i] = e})

Exited == last.op = "exit"

BodyReturned == Exited /\ last.body.kind = "return"

\* The body raised an error (an Exception).
BodyRaisedError ==
    Exited /\ last.body.kind = "raise" /\ Head(last.body.exc) \notin Signals

\* The body was left by a signal (a BaseException that is no Exception).
BodySignalled ==
    Exited /\ last.body.kind = "raise" /\ Head(last.body.exc) \in Signals

RolledBackAndWrapped ==
    /\ last.trace # <<>>
    /\ Head(last.trace) = "rollback"
    /\ ~last.fails =>
          /\ last.out.kind = "raise"
          /\ Head(last.out.exc) = "DatabaseError"
          /\ Tail(last.out.exc) = last.body.exc

\* C4 as claimed: whenever the body of a scope raises an error E, be it a
\* scope that created its session or one that reused the ambient session,
\* the session's rollback is called before anything propagates and what
\* propagates is a DatabaseError whose cause is exactly E.
C4_RollbackAndWrapInEveryScope == BodyRaisedError => RolledBackAndWrapped

\* C4, amended: when the body of a scope that created its session raises an
\* error E, rollback is called first and (the rollback returning) a
\* DatabaseError whose cause is exactly E propagates; a scope that reused
\* the ambient session calls nothing on it and lets E propagate unchanged.
C4_RollbackAndWrapInOwningScope ==
    BodyRaisedError =>
        IF last.frame.owner
        THEN RolledBackAndWrapped
        ELSE last.trace = <<>> /\ last.out = last.body

C4_Witness ==
    /\ BodyRaisedError /\ last.frame.owner /\ ~last.fails
    /\ last.body.exc = <<"ValueError">>
    /\ last.out.exc = <<"DatabaseError", "ValueError">>
    /\ Head(last.trace) = "rollback"

\* C5: a scope with on_exit = commit calls commit exactly once, after the
\* body returned, and not at all when the body raised; this holds for a
\* scope that created its session and for one that reused the ambient one.
C5_CommitOnceOnSuccess ==
    (Exited /\ last.frame.on_exit = "commit") =>
        IF last.body.kind = "return"
        THEN Count("commit", last.trace) = 1 /\ Head(last.trace) = "commit"
        ELSE Count("commit", last.trace) = 0

C5_Witness ==
    /\ BodyReturned /\ last.frame.on_exit = "commit" /\ ~last.frame.owner
    /\ last.trace = <<"commit">>
    /\ last.out.kind = "return"

NothingCreated ==
    /\ last.trace = <<>>
    /\ sessions = last.before.sessions
    /\ registry = last.before.registry
    /\ ambient = last.before.ambient
    /\ last.session = 0

MissingRaise ==
    /\ last.op = "enter"
    /\ last.args.on_missing = "raise"
    /\ last.before.ambient = 0

\* C6 as claimed: a scope entered with on_missing = raise while no session
\* is ambient raises without calling a factory or publishing a session,
\* whatever the other arguments, new included.
C6_MissingRaisesForEveryNew ==
    MissingRaise => (last.out.kind = "raise" /\ NothingCreated)

\* C6, amended: with new = false, a scope entered with on_missing = raise
\* while no session is ambient raises (a RuntimeError) without calling a
\* factory or publishing a session; with new = true on_missing is not
\* consulted and the scope creates and publishes a session whenever a
\* factory is available.
C6_MissingRaisesUnlessNew ==
    MissingRaise =>
        IF ~last.args.new
        THEN last.out = [kind |-> "raise", exc |-> <<"RuntimeError">>]
             /\ NothingCreated
        ELSE (last.args.using # None \/ app # None) =>
                /\ last.out.kind = "yield"
                /\ last.trace = <<"factory", "set">>
                /\ ambient = last.session /\ ambient # 0

C6_Witness ==
    /\ MissingRaise /\ ~last.args.new /\ last.args.using # None
    /\ last.out.exc = <<"RuntimeError">>
    /\ sessions = <<>>

ReleaseCall(frame) == IF frame.factory.scoped THEN "remove" ELSE "close"

ReleasedOnce ==
    /\ Count("reset", last.trace) = 1
    /\ Count("close", last.trace) + Count("remove", last.trace) = 1
    /\ Count(ReleaseCall(last.frame), last.trace) = 1
    /\ last.trace[Len(last.trace) - 1] = "reset"
    /\ last.trace[Len(last.trace)] = ReleaseCall(last.frame)
    /\ ambient = last.frame.token
    /\ sessions[last.frame.session].closes = 1

\* C7: a scope that created its session un-publishes it and releases it
\* (close, or remove of a scoped factory) exactly once on every exit path:
\* the body returns, the body raises, the on-exit action raises, or the
\* rollback of the failure handler raises.
C7_ReleaseOnEveryExit == (Exited /\ last.frame.owner) => ReleasedOnce

C7_Witness ==
    /\ BodyRaisedError /\ last.frame.owner /\ last.fails
    /\ last.trace = <<"rollback", "reset", "close">>
    /\ last.out.exc = <<"OperationalError">>
    /\ sessions[last.frame.session].closes = 1

\* C8 as claimed: when a signal leaves the body of a scope that created
\* its session, rollback is called on the session and then the session is
\* closed or removed, before the signal propagates.
C8_RollbackOnSignal ==
    (BodySignalled /\ last.frame.owner) =>
        /\ \E i, j \in DOMAIN last.trace :
              /\ i < j
              /\ last.trace[i] = "rollback"
              /\ last.trace[j] \in {"close", "remove"}
        /\ last.out = last.body

\* C8, amended: when a signal leaves the body of a scope that created its
\* session, the scope un-publishes the session and closes or removes it
\* before the signal propagates, unchanged; rollback is not called on the
\* session.
C8_ReleaseWithoutRollbackOnSignal ==
    (BodySignalled /\ last.frame.owner) =>
        /\ last.trace = <<"reset", ReleaseCall(last.frame)>>
        /\ last.out = last.body
        /\ ambient = last.frame.token
        /\ sessions[last.frame.session].closes = 1

C8_Witness ==
    /\ BodySignalled /\ last.frame.owner
    /\ last.body.exc = <<"CancelledError">>
    /\ last.trace = <<"reset", "close">>
    /\ last.out.exc = <<"CancelledError">>

\* C9: when the body returned and the on-exit action (commit or flush)
\* raises, rollback is called on the session before the failure leaves the
\* scope, and the failure does leave the scope.
C9_RollbackWhenOnExitFails ==
    (BodyReturned /\ last.frame.on_exit \in {"commit", "flush"}
       /\ last.fails) =>
        /\ last.out.kind = "raise"
        /\ \E i, j \in DOMAIN last.trace :
              /\ i < j
              /\ last.trace[i] = last.frame.on_exit
              /\ last.trace[j] = "rollback"

SharedEntry ==
    /\ last.op = "enter"
    /\ ~last.args.new
    /\ last.before.ambient # 0
    /\ last.before.sessions[last.before.ambient].async = last.args.async

\* C10: a scope entered with new = false while a session of its mode is
\* ambient yields that very session and calls no factory; however its body
\* ends, it leaves the ambient session as it was and neither closes nor
\* removes the session; when the body returns it applies on_exit once to
\* the session, and when the body raises it calls nothing on it.
C10_SharedScopeOwnsNothing ==
    /\ SharedEntry =>
          /\ last.out.kind = "yield"
          /\ last.session = last.before.ambient
          /\ ~last.owner
          /\ last.trace = <<>>
          /\ sessions = last.before.sessions
          /\ registry = last.before.registry
          /\ ambient = last.before.ambient
    /\ (Exited /\ ~last.frame.owner) =>
          /\ ambient = last.before.ambient
          /\ sessions = last.before.sessions
          /\ registry = last.before.registry
          /\ last.trace = IF last.body.kind = "return"
                             /\ last.frame.on_exit # None
                          THEN <<last.frame.on_exit>> ELSE <<>>

C10_Witness ==
    /\ BodyReturned /\ ~last.frame.owner
    /\ last.frame.on_exit = "flush"
    /\ last.trace = <<"flush">>
    /\ ambient = last.frame.session
    /\ sessions[ambient].closes = 0

MismatchedEntry ==
    /\ last.op = "enter"
    /\ ~last.args.new
    /\ last.before.ambient # 0
    /\ last.before.sessions[last.before.ambient].async # last.args.async

\* C11: a scope entered with new = false while the ambient session is of
\* the other concurrency mode fails with a RuntimeError before its body
\* runs: no factory is called, no session is created, nothing is called on
\* the ambient session and the ambient session stays what it was.
C11_ModeMismatchIsFatal ==
    MismatchedEntry =>
        /\ last.out = Raise(<<"RuntimeError">>)
        /\ NothingCreated
        /\ ~last.owner

C11_Witness ==
    /\ MismatchedEntry
    /\ last.args.async
    /\ last.args.on_missing = "create"
    /\ last.out = Raise(<<"RuntimeError">>)
    /\ stack # <<>>
    /\ ambient = stack[Len(stack)].session
    /\ sessions[ambient].closes = 0

\* The entry gets as far as looking for a factory, and there is none.
NoFactoryEntry ==
    /\ last.op = "enter"
    /\ last.args.new
       \/ (last.before.ambient = 0 /\ last.args.on_missing = "create")
    /\ last.args.using = None
    /\ app = None

\* C12: a scope that has to create its session takes the factory from
\* `using` when given and from the application otherwise; with neither,
\* the blocking and the cooperative scope alike fail with a SessionError
\* before any session is created or published.
C12_NoFactoryRaisesSessionError ==
    NoFactoryEntry =>
        /\ last.out = Raise(<<"SessionError">>)
        /\ NothingCreated

\* The ambient session as the scope of a frame found it on entry.
EntryAmbient(frame) == IF frame.owner THEN frame.token ELSE frame.session

\* C13: under any nesting of scopes (new or not, bodies returning or
\* raising) the ambient session, while the body of the innermost scope
\* runs, is the session that scope yielded; once a scope has exited it is
\* what it was just before that scope was entered, which is the session of
\* the enclosing scope, or none outside every scope.
C13_AmbientSymmetricUnderNesting ==
    /\ stack # <<>> => ambient = stack[Len(stack)].session
    /\ stack = <<>> => ambient = 0
    /\ Exited => ambient = EntryAmbient(last.frame)
    /\ (last.op = "enter" /\ last.out.kind = "raise") =>
          ambient = last.before.ambient

C13_Witness ==
    /\ Exited /\ last.frame.owner
    /\ last.body.kind = "raise"
    /\ stack # <<>>
    /\ stack[Len(stack)].owner
    /\ last.frame.session # stack[Len(stack)].session
    /\ ambient = stack[Len(stack)].session
    /\ last.before.ambient = last.frame.session

----------------------------------------------------------------------------
(* Properties of commit(expire=...), checked under SpecCommit.             *)

\* C15: while the commit of a call commit(expire=v), v given, is under
\* way, blocking or cooperative, expire_on_commit is v; when the call has
\* returned or raised, expire_on_commit is what it was before the call;
\* a call without expire never writes expire_on_commit.
C15_ExpireOverrideIsTemporary ==
    /\ (committing.active /\ committing.expire # None) =>
          expire_on_commit = committing.expire
    /\ (lastCommit.active /\ lastCommit.expire # None) =>
          /\ lastCommit.during = lastCommit.expire
          /\ lastCommit.after = lastCommit.before
          /\ lastCommit.written = <<lastCommit.expire, lastCommit.before>>
    /\ (committing.active /\ committing.expire = None) =>
          written = <<>> /\ expire_on_commit = committing.before
    /\ (lastCommit.active /\ lastCommit.expire = None) =>
          /\ lastCommit.written = <<>>
          /\ lastCommit.during = lastCommit.before
          /\ lastCommit.after = lastCommit.before
    /\ (lastCommit.active /\ ~committing.active /\ written # <<>>) =>
          expire_on_commit = lastCommit.after

C15_Witness ==
    /\ lastCommit.active /\ lastCommit.async
    /\ ~committing.active
    /\ lastCommit.out = "raise"
    /\ lastCommit.before = "True"
    /\ lastCommit.expire = "False"
    /\ lastCommit.during = "False"
    /\ written = <<"False", "True">>
    /\ expire_on_commit = "True"

----------------------------------------------------------------------------
(* Properties of bulk scopes, checked under SpecBulk.                      *)

\* C16: session.bulk(), blocking or cooperative, creates an empty bulk
\* bound to the session it is called on and makes it the ambient bulk
\* while its body runs; however the body ends, nested scopes included, the
\* ambient bulk is again what it was before the scope was entered, and the
\* entries of the bulk are what they were when the body ended.
C16_BulkScopePublishesAndRestores ==
    /\ lastBulk.op = "enter" =>
          /\ bulk_ambient = lastBulk.bulk
          /\ bulks[lastBulk.bulk].session = lastBulk.session
          /\ bulks[lastBulk.bulk].entries = <<>>
          /\ bstack[Len(bstack)] =
                [bulk |-> lastBulk.bulk, token |-> lastBulk.before]
    /\ bstack # <<>> => bulk_ambient = bstack[Len(bstack)].bulk
    /\ bstack = <<>> => bulk_ambient = 0
    /\ lastBulk.op = "exit" =>
          /\ bulk_ambient = lastBulk.token
          /\ bulk_ambient # lastBulk.bulk
          /\ bulks[lastBulk.bulk].entries = lastBulk.entries

C16_Witness ==
    /\ lastBulk.op = "exit"
    /\ lastBulk.out = Raise(<<"ValueError">>)
    /\ lastBulk.before = lastBulk.bulk
    /\ Len(bulks[lastBulk.bulk].entries) > 0
    /\ bstack # <<>>
    /\ bulk_ambient = bstack[Len(bstack)].bulk
    /\ sessions[bulks[lastBulk.bulk].session].async

----------------------------------------------------------------------------
(* Properties of resolve(), checked under SpecResolve.                     *)

Called == resolving.state # "idle"

ExecuteFailed == Called /\ resolving.exc = <<"OperationalError">>

\* resolve() ended and no statement of it failed.
Resolved == resolving.state \in {"returned", "raised"} /\ ~ExecuteFailed

EntriesOf(b) == bulks[b].entries

\* C17: resolve() executes every unit the resolver emits exactly once, in
\* the order of emission, and sends its result back with the fields of
\* that very unit before it takes the next unit; at most one statement is
\* under execution at any time, in a cooperative session too; the call
\* returns exactly when the resolver signals completion, having executed
\* nothing when the resolver emitted nothing.
C17_ResolveIsSequentialProtocol ==
    Called =>
        /\ Len(resolving.outstanding) <= 1
        /\ resolving.issued = resolving.emitted
        /\ Len(resolving.fed) + Len(resolving.outstanding)
              + (IF ExecuteFailed THEN 1 ELSE 0) = Len(resolving.issued)
        /\ \A k \in DOMAIN resolving.fed :
              resolving.fed[k] = <<resolving.issued[k].fields,
                                   Rows(resolving.issued[k])>>
        /\ resolving.state = "running" =>
              resolving.outstanding = <<resolving.issued[Len(resolving.issued)]>>
        /\ resolving.state = "returned" <=> resolving.signal = "stop"
        /\ resolving.state = "returned" =>
              /\ resolving.outstanding = <<>>
              /\ resolving.queue = <<>>
              /\ Len(resolving.fed) = Len(resolving.emitted)

C17_Witness ==
    /\ resolving.state = "returned"
    /\ sessions[bulks[resolving.bulk].session].async
    /\ Len(resolving.emitted) = 2
    /\ resolving.issued = resolving.emitted
    /\ resolving.issued[1].type # resolving.issued[2].type
    /\ Len(resolving.fed) = 2

\* C18: when entries cannot be resolved, resolve(raise_errors=True) ends
\* with the aggregated failure of the resolver, which the loop lets
\* through; resolve(raise_errors=False) returns and leaves each of them
\* failed; an entry that failed in an earlier call is not taken up again.
C18_FailurePolicy ==
    /\ Resolved =>
          /\ (resolving.raise_errors /\ resolving.unresolved # {}) =>
                /\ resolving.state = "raised"
                /\ resolving.exc = <<"ResolutionError">>
          /\ (~resolving.raise_errors \/ resolving.unresolved = {}) =>
                resolving.state = "returned"
          /\ \A i \in resolving.unresolved :
                EntriesOf(resolving.bulk)[i].status = "failed"
    /\ Called =>
          \A i \in resolving.skipped :
              /\ EntriesOf(resolving.bulk)[i].status = "failed"
              /\ i \notin resolving.resolved \cup resolving.unresolved

C18_Witness ==
    /\ Resolved
    /\ resolving.raise_errors
    /\ resolving.state = "raised"
    /\ resolving.exc = <<"ResolutionError">>
    /\ resolving.resolved # {}
    /\ resolving.unresolved # {}

\* Two references of one bulk, behind proxies, to the same resource, both
\* resolved.
Twins(b, i, j) ==
    /\ i # j
    /\ EntriesOf(b)[i].proxied /\ EntriesOf(b)[j].proxied
    /\ EntriesOf(b)[i].type = EntriesOf(b)[j].type
    /\ EntriesOf(b)[i].id = EntriesOf(b)[j].id
    /\ EntriesOf(b)[i].status = "resolved"
    /\ EntriesOf(b)[j].status = "resolved"

\* C19: two references registered in a bulk with proxy_reference that
\* denote the same resource stand, once resolved, for one shared instance:
\* both show the same fields, and a field set through one of them shows
\* through the other.
C19_ProxiedReferencesShareInstance ==
    /\ \A b \in DOMAIN bulks : \A i, j \in DOMAIN EntriesOf(b) :
          Twins(b, i, j) =>
              /\ EntriesOf(b)[i].target = "shared"
              /\ EntriesOf(b)[j].target = "shared"
              /\ ProxyGet(b, i) = ProxyGet(b, j)
    /\ lastBulk.op = "mutate" =>
          \A j \in DOMAIN EntriesOf(lastBulk.bulk) :
              Twins(lastBulk.bulk, lastBulk.entry, j) =>
                  ProxyGet(lastBulk.bulk, j) = "edited"

C19_Witness ==
    /\ lastBulk.op = "mutate"
    /\ \E j \in DOMAIN EntriesOf(lastBulk.bulk) :
          /\ Twins(lastBulk.bulk, lastBulk.entry, j)
          /\ EntriesOf(lastBulk.bulk)[j].data = "key"
          /\ ProxyGet(lastBulk.bulk, j) = "edited"

\* An instance holds fields other than those of its identity.
Populated(data) == data \in {"stale", "fresh", "edited"}

PendingReferenceTypes(b) ==
    {EntriesOf(b)[i].type :
        i \in {k \in DOMAIN EntriesOf(b) :
                  /\ EntriesOf(b)[k].kind = "reference"
                  /\ EntriesOf(b)[k].status = "pending"}}

\* C21: resolve(scope='references') executes one statement per resource
\* type among the references pending when it is called, however many
\* references of a type are pending: no two statements of a call are for
\* the same type, the statements executed and those still to come are as
\* many as the types of the pending references, and a call no statement of
\* which failed has executed as many statements as the references it dealt
\* with have types, and has left no reference pending and touched no value.
C21_OneQueryPerReferenceType ==
    (Called /\ resolving.scope = "references") =>
        /\ \A j, k \in DOMAIN resolving.issued :
              j # k => resolving.issued[j].type # resolving.issued[k].type
        /\ resolving.fed = <<>> =>
              Len(resolving.issued) + Len(resolving.queue) =
                  Cardinality(PendingReferenceTypes(resolving.bulk))
        /\ Resolved =>
              /\ Len(resolving.issued) =
                    Cardinality({EntriesOf(resolving.bulk)[i].type :
                        i \in resolving.resolved \cup resolving.unresolved})
              /\ \A i \in resolving.resolved \cup resolving.unresolved :
                    EntriesOf(resolving.bulk)[i].kind = "reference"
              /\ PendingReferenceTypes(resolving.bulk) = {}

C21_Witness ==
    /\ resolving.state = "returned"
    /\ resolving.scope = "references"
    /\ Len(EntriesOf(resolving.bulk)) = 2
    /\ resolving.resolved \cup resolving.unresolved = {1, 2}
    /\ EntriesOf(resolving.bulk)[1].type = EntriesOf(resolving.bulk)[2].type
    /\ EntriesOf(resolving.bulk)[1].id # EntriesOf(resolving.bulk)[2].id
    /\ Len(resolving.issued) = 1
    /\ resolving.issued[1].ids = {42, 7}

----------------------------------------------------------------------------
(* Properties of a bulk whose session is closed, checked under SpecClosed. *)

OwnerClosed(b) == sessions[bulks[b].session].closes > 0

\* C22 as claimed: once the session of a bulk is closed, none of its
\* entries is pending any more, and resolve() on the bulk executes no
\* statement against the session.
C22_ClosedSessionEndsBulk ==
    /\ \A b \in DOMAIN bulks :
          OwnerClosed(b) =>
              \A i \in DOMAIN EntriesOf(b) : EntriesOf(b)[i].status # "pending"
    /\ (Called /\ OwnerClosed(resolving.bulk)) => resolving.issued = <<>>

----------------------------------------------------------------------------
(* Properties of two execution units, checked under SpecUnits.             *)

\* The sessions and the bulks the scopes under way in a unit published.
Published(frames) ==
    {frames[i].session : i \in {k \in DOMAIN frames : frames[k].owner}}

PublishedBulks(frames) == {frames[i].bulk : i \in DOMAIN frames}

Inherited(unit) ==
    IF unit = 2 /\ spawned.kind # "none"
    THEN [ambient |-> spawned.ambient, bulk_ambient |-> spawned.bulk_ambient]
    ELSE [ambient |-> 0, bulk_ambient |-> 0]

----------------------------------------------------------------------------
(* Properties of the dependency helpers, checked under Spec.               *)

DependencyEntry ==
    /\ last.op = "enter"
    /\ last.args = session_dependency(last.args.async)

\* The scope of a helper is left: a helper never creates its session and
\* names no on-exit action.
DependencyExit ==
    /\ last.op = "exit"
    /\ ~last.frame.owner
    /\ last.frame.on_exit = None

Untouched ==
    /\ last.trace = <<>>
    /\ ambient = last.before.ambient
    /\ sessions = last.before.sessions
    /\ registry = last.before.registry

\* C23 as claimed: whenever a session is ambient, a helper yields it.
C23_DependencyYieldsAnyAmbient ==
    (DependencyEntry /\ last.before.ambient # 0) =>
        /\ last.out = Yield
        /\ last.session = last.before.ambient

\* C23, amended: a helper fails with RuntimeError when no session is
\* ambient and when the ambient session is of the other mode; when a
\* session of its mode is ambient it yields that very session. It calls no
\* factory, and however the body ends it makes no call on the session,
\* leaves it open, leaves the ambient session as it is and lets the
\* outcome of the body through.
C23_DependencyNeedsOpenSession ==
    /\ DependencyEntry =>
          /\ Untouched
          /\ IF /\ last.before.ambient # 0
                /\ last.before.sessions[last.before.ambient].async
                      = last.args.async
             THEN /\ last.out = Yield
                  /\ last.session = last.before.ambient
                  /\ ~last.owner
                  /\ stack[Len(stack)].session = last.before.ambient
             ELSE last.out = Raise(<<"RuntimeError">>)
    /\ DependencyExit =>
          /\ Untouched
          /\ last.out = last.body

C23_Witness ==
    /\ DependencyExit
    /\ last.frame.async
    /\ last.body = Raise(<<"ValueError">>)
    /\ last.out = last.body
    /\ ambient = last.frame.session
    /\ sessions[ambient].closes = 0
    /\ stack # <<>>

----------------------------------------------------------------------------
(* The blocking and the cooperative scope side by side, checked under      *)
(* Spec.                                                                   *)

\* The frame of the same scope in the other mode.
Twin(frame) ==
    [frame EXCEPT !.async = ~@, !.factory = [@ EXCEPT !.async = ~@]]

\* C24 as claimed: the blocking and the cooperative scope take the same
\* lifecycle steps and end alike. Entered with the same arguments where
\* the mode of the ambient session plays no part (new = true, or no
\* ambient session), both end the entry with the same outcome after the
\* same steps; with new = false and a session ambient the outcome depends
\* only on whether that session is of the scope's mode; and a scope is left
\* with the steps and the outcome its twin of the other mode would have.
C24_ModesAgree ==
    /\ \A using \in Usings, new \in BOOLEAN, on_missing \in OnMissing,
          on_exit \in OnExits :
          (new \/ ambient = 0) =>
              LET sync == EnterScope(Args(FALSE, using, new, on_missing,
                                          on_exit))
                  coop == EnterScope(Args(TRUE, using, new, on_missing,
                                          on_exit))
              IN  /\ sync.out = coop.out
                  /\ sync.trace = coop.trace
    /\ (last.op = "enter" /\ ~last.args.new /\ last.before.ambient # 0) =>
          /\ last.trace = <<>>
          /\ last.out =
                IF last.before.sessions[last.before.ambient].async
                      = last.args.async
                THEN Yield ELSE Raise(<<"RuntimeError">>)
    /\ last.op = "exit" =>
          LET twin == ExitScope(Twin(last.frame), last.body, last.fails)
          IN  /\ last.out = twin.run.out
              /\ last.trace = twin.run.calls \o twin.end.calls

----------------------------------------------------------------------------
(* The order of the steps on leaving a scope, checked under Spec.          *)

Finalising == {"commit", "flush", "rollback"}

Releasing == {"close", "remove"}

\* C25: a scope that created its session is left in this order: when the
\* body returned, the on-exit action (if one is named), then the reset of
\* the ambient session, then the release; when the body raised an error,
\* rollback, then the reset, then the release. On every way out a call on
\* the session comes before the reset and the reset before the release,
\* and the release is one call: remove() of the factory exactly when the
\* factory is scoped, close() of the session otherwise.
C25_ExitStepsOrdered ==
    (Exited /\ last.frame.owner) =>
        /\ BodyReturned =>
              last.trace =
                  (IF last.frame.on_exit = None THEN <<>>
                   ELSE <<last.frame.on_exit>>)
                  \o <<"reset", ReleaseCall(last.frame)>>
        /\ BodyRaisedError =>
              last.trace = <<"rollback", "reset", ReleaseCall(last.frame)>>
        /\ \A i, j \in DOMAIN last.trace :
              /\ (last.trace[i] \in Finalising /\ last.trace[j] = "reset")
                    => i < j
              /\ (last.trace[i] = "reset" /\ last.trace[j] \in Releasing)
                    => i < j
        /\ Count("reset", last.trace) = 1
        /\ Count("close", last.trace) + Count("remove", last.trace) = 1
        /\ Count("remove", last.trace) = 1 <=> last.frame.factory.scoped
        /\ Count("close", last.trace) = 1 <=> ~last.frame.factory.scoped

C25_Witness ==
    /\ BodyRaisedError /\ last.frame.owner /\ ~last.fails
    /\ last.frame.factory.scoped
    /\ last.frame.async
    /\ last.trace = <<"rollback", "reset", "remove">>
    /\ registry[TRUE] = 0
    /\ Head(last.out.exc) = "DatabaseError"

\* The finalising calls made on the session while the scope was left.
FinalisingCalls == SelectSeq(last.trace, LAMBDA c : c \in Finalising)

\* C26: with on_exit flush or rollback, a body that returns is followed by
\* that one call on the session and no other finalising call, and with no
\* on_exit by none at all; when the body of a scope that created its
\* session raises an error, the one finalising call is a rollback, with
\* on_exit = rollback too; a signal leaving the body is followed by none.
C26_OneFinalisingAction ==
    Exited =>
        /\ (BodyReturned /\ last.frame.on_exit \in {"flush", "rollback"}) =>
              FinalisingCalls = <<last.frame.on_exit>>
        /\ (BodyReturned /\ last.frame.on_exit = None) =>
              FinalisingCalls = <<>>
        /\ (BodyRaisedError /\ last.frame.owner) =>
              FinalisingCalls = <<"rollback">>
        /\ BodySignalled => FinalisingCalls = <<>>

C26_Witness ==
    /\ BodyRaisedError /\ last.frame.owner
    /\ last.frame.on_exit = "rollback"
    /\ last.trace = <<"rollback", "reset", "close">>
    /\ Count("rollback", last.trace) = 1
    /\ sessions[last.frame.session].closes = 1

----------------------------------------------------------------------------
(* The bind of a session that is the blocking half of a cooperative one,   *)
(* checked under SpecBind.                                                 *)

\* The calls get_bind made on the router.
RouterCalls ==
    {k \in DOMAIN lastBind.calls : lastBind.calls[k].fn # "super"}

\* The engine name the router holds for the call: that of the phase, else
\* its default, else none.
RoutedName ==
    LET resource == lastBind.mapper.class_
        route == IF resource \in Types THEN routes[resource]
                 ELSE [read |-> None, write |-> None]
        first == IF lastBind.flushing THEN route.write ELSE route.read
    IN  IF first # None THEN first ELSE fallback

\* C27: the blocking session reports async mode exactly when it has a
\* cooperative proxy; every lookup get_bind makes on the router is made
\* with that mode (true under a proxy, false for a standalone session);
\* and the bind returned is never a cooperative engine: where the router
\* suggests one, the bind is the blocking facade of that very engine.
C27_ProxiedSessionBindsFacade ==
    /\ async_mode(sess) <=> sess.proxy
    /\ lastBind.called =>
          /\ \A k \in RouterCalls :
                lastBind.calls[k].async_mode = sess.proxy
          /\ ~lastBind.bind.async
          /\ (sess.bind = NoEngine /\ sess.routing) =>
                /\ RouterCalls # {}
                /\ RoutedName # None =>
                      lastBind.bind = [name |-> RoutedName, async |-> FALSE]

C27_Witness ==
    /\ lastBind.called
    /\ sess.proxy /\ sess.routing /\ sess.bind = NoEngine
    /\ lastBind.flushing
    /\ Len(lastBind.calls) = 2
    /\ \A k \in DOMAIN lastBind.calls : lastBind.calls[k].async_mode
    /\ lastBind.bind = [name |-> fallback, async |-> FALSE]
    /\ Lookup(fallback, async_mode(sess)).async

----------------------------------------------------------------------------
(* A scope with new = true inside another scope, checked under Spec.       *)

\* C28 as claimed: a scope entered with new = true while a session is
\* ambient yields another session than the ambient one, with a plain and
\* with a scoped factory alike; and when such a scope is left, the session
\* of the enclosing scope has had no call from it and is as open as it
\* was.
C28_NestedNewIsIsolated ==
    /\ (last.op = "enter" /\ last.args.new /\ last.before.ambient # 0
          /\ last.out = Yield) =>
          /\ last.session # last.before.ambient
          /\ sessions[last.before.ambient]
                = last.before.sessions[last.before.ambient]
    /\ (Exited /\ last.frame.owner /\ last.frame.token # 0) =>
          /\ last.frame.session # last.frame.token
          /\ sessions[last.frame.token].closes
                = last.before.sessions[last.frame.token].closes
          /\ ambient = last.frame.token

----------------------------------------------------------------------------
(* Overlapping commit calls on one session, checked under SpecOverlap.     *)

BothDone == \A c \in Callers : callers[c].pc = "done"

\* The two calls overlapped: the second began while the first was
\* suspended in its commit; both came with an override.
Overlapped(a, b) ==
    /\ a # b
    /\ BothDone
    /\ callers[a].leads
    /\ callers[b].overlaps
    /\ callers[a].expire # None
    /\ callers[b].expire # None

\* C29 as claimed: when two commit(expire=...) calls on one cooperative
\* session overlap at the suspension point of the commit, then once both
\* have ended the expire_on_commit setting of the session is what it was
\* before the first of them began.
C29_OverlapRestoresSetting ==
    \A a, b \in Callers :
        Overlapped(a, b) => expire_on_commit = callers[a].before

----------------------------------------------------------------------------
(* A statement of resolve() that fails, checked under SpecResolve.         *)

\* A statement was executed whose result never reached the resolver.
Unanswered ==
    /\ Called
    /\ Len(resolving.fed) + Len(resolving.outstanding)
          < Len(resolving.issued)

\* C30: when the execution of a statement the resolver emitted fails,
\* resolve() ends with that very failure, not wrapped; the resolver is
\* sent nothing for the statement and is not run any further, so the
\* entries of that unit stay pending; and no other statement is executed
\* by the call.
C30_ExecuteFailurePropagates ==
    Unanswered =>
        LET unit == resolving.issued[Len(resolving.issued)]
        IN  /\ resolving.state = "raised"
            /\ resolving.exc = <<"OperationalError">>
            /\ resolving.outstanding = <<>>
            /\ Len(resolving.fed) = Len(resolving.issued) - 1
            /\ resolving.emitted = resolving.issued
            /\ resolving.context = unit
            /\ resolving.signal = "yield"
            /\ Batch(EntriesOf(resolving.bulk), resolving.scope, unit.type)
                  # {}
            /\ \A i \in DOMAIN EntriesOf(resolving.bulk) :
                  EntriesOf(resolving.bulk)[i].type = unit.type =>
                      i \notin resolving.resolved \cup resolving.unresolved

C30_Witness ==
    /\ Unanswered
    /\ resolving.state = "raised"
    /\ resolving.exc = <<"OperationalError">>
    /\ Len(resolving.issued) = 2
    /\ Len(resolving.fed) = 1
    /\ resolving.raise_errors
    /\ EntriesOf(resolving.bulk)[1].status # "pending"
    /\ EntriesOf(resolving.bulk)[2].status = "pending"

====
